---- MODULE Spec2Model ----
(***************************************************************************)
(* Model of company_subsidiaries.py: get_subsidiaries_hierarchy and its    *)
(* nested functions search_single_company, search_level, count_companies,  *)
(* together with the provider get_subsidiaries_single_search.              *)
(*                                                                         *)
(* A company name is a sequence of one-character strings.  The main thread *)
(* runs the chain of active search_level calls (stack); every call owns a  *)
(* ThreadPoolExecutor whose work items are the tasks of its frame.         *)
(***************************************************************************)
EXTENDS Integers, Sequences, FiniteSets, TLC

\* ------------------------------------------------------------------ bounds
MaxDepthBound == 3
MaxWorkersBound == 2

\* ------------------------------------------------------- strings (str API)
Upper == {"A", "B", "C", "D", "E", "R", "X", "Y", "Z"}

LowerOf == [c \in Upper |->
              CASE c = "A" -> "a" [] c = "B" -> "b" [] c = "C" -> "c"
                [] c = "D" -> "d" [] c = "E" -> "e" [] c = "R" -> "r"
                [] c = "X" -> "x" [] c = "Y" -> "y" [] c = "Z" -> "z"]

\* str.lower(): every cased character is replaced by its lower-case form.
lower(s) == [i \in 1..Len(s) |-> IF s[i] \in Upper THEN LowerOf[s[i]] ELSE s[i]]

RECURSIVE lstrip(_)
lstrip(s) == IF s # <<>> /\ Head(s) = " " THEN lstrip(Tail(s)) ELSE s

RECURSIVE rstrip(_)
rstrip(s) == IF s # <<>> /\ s[Len(s)] = " " THEN rstrip(SubSeq(s, 1, Len(s) - 1)) ELSE s

\* str.strip(): leading and trailing whitespace removed.
strip(s) == rstrip(lstrip(s))

\* The dedup key of search_single_company: company.lower().strip()
company_lower(company) == strip(lower(company))

Range(s) == {s[i] : i \in 1..Len(s)}

\* The elements of s at the positions in keep, in their order in s.
Pick(s, keep) ==
    [n \in 1..Cardinality(keep) |->
        s[CHOOSE i \in keep : Cardinality({j \in keep : j < i}) = n - 1]]

\* list(dict.fromkeys(names)): exact duplicates dropped, first occurrence kept.
fromkeys(s) == Pick(s, {i \in 1..Len(s) : \A j \in 1..(i - 1) : s[j] # s[i]})

\* The loop of lines 40-44: values that are empty or blank are skipped, the
\* others are appended stripped.
entitynames(elems) ==
    Pick([i \in 1..Len(elems) |-> strip(elems[i])],
         {i \in 1..Len(elems) : elems[i] # <<>> /\ strip(elems[i]) # <<>>})

\* ----------------------------------------------------------- the web pages
\* What the search page of a query holds: the data-entityname values of its
\* result links ("ok"), a page that times out inside the try block
\* ("timeout"), or a browser that cannot be launched ("nolaunch").
Page(elems) == [kind |-> "ok", elems |-> elems]
TimeoutPage == [kind |-> "timeout", elems |-> <<>>]
NoLaunchPage == [kind |-> "nolaunch", elems |-> <<>>]

nR == <<"R">>
nA == <<"A">>
nB == <<"B">>
nC == <<"C">>
nD == <<"D">>
nE == <<"E">>
nX == <<"X">>
nY == <<"Y">>
nZ == <<"Z">>
na == <<"a">>
nr == <<"r">>
nRsp == <<"R", " ">>

\* RootCo -> [A, B], A -> [B, C], B -> [], C -> []
WebShared == (nR :> Page(<<nA, nB>>)) @@ (nA :> Page(<<nB, nC>>))

\* A chain reached along two paths of different length.
WebChain == (nR :> Page(<<nA, nB>>)) @@ (nA :> Page(<<nB>>))
              @@ (nB :> Page(<<nD>>)) @@ (nD :> Page(<<nE>>))

\* Failing lookups beside a succeeding sibling, and below it.
WebFailing == (nR :> Page(<<nX, nY, nZ>>)) @@ (nX :> TimeoutPage)
                @@ (nY :> Page(<<nC, nX, nD>>)) @@ (nZ :> NoLaunchPage)
                @@ (nC :> NoLaunchPage)

\* Three companies of one level that own each other and share subsidiaries.
WebWide == (nR :> Page(<<nA, nB, nC>>)) @@ (nA :> Page(<<nB, nD>>))
             @@ (nB :> Page(<<nC, nE>>)) @@ (nC :> Page(<<nA>>))
             @@ (nD :> Page(<<nE>>))

\* The root's own lookup cannot start.
WebNoLaunch == (nR :> NoLaunchPage)

\* Raw forms that differ in case and blanks, blank and repeated values on the
\* page, and cyclic ownership (a -> r -> ...).
WebCase == (nRsp :> Page(<<<<" ", "a">>, na, <<" ">>, <<>>, nA>>))
             @@ (na :> Page(<<nr, nB>>)) @@ (nA :> Page(<<nr, nB>>))
             @@ (nr :> Page(<<na>>))

Scenarios == { [root |-> nR, web |-> WebShared],
               [root |-> nR, web |-> WebChain],
               [root |-> nE, web |-> WebChain],
               [root |-> nR, web |-> WebFailing],
               [root |-> nR, web |-> WebWide],
               [root |-> nR, web |-> WebNoLaunch],
               [root |-> nRsp, web |-> WebCase] }

VARIABLES
    company_name,        \* argument: the root company (raw)
    max_depth,           \* argument
    max_workers,         \* argument
    web,                 \* the pages the provider sees during this call
    pc,                  \* main thread: "start", "level", "returned", "raised"
    searched_companies,  \* the shared set of normalized names
    stack,               \* the active search_level calls, outermost first
    hierarchy,           \* the dict built and returned
    lookedUp,            \* history: the tasks that called the provider
    markedBy,            \* history: normalized name -> the task that added it
    raisedAt,            \* history: the tasks whose future holds an exception
    firstSeen            \* history: normalized name -> raw form discovered first

vars == <<company_name, max_depth, max_workers, web, pc, searched_companies,
          stack, hierarchy, lookedUp, markedBy, raisedAt, firstSeen>>

config == <<company_name, max_depth, max_workers, web>>

\* The page the browser gets for the query of a company among the pages w.
PageFor(w, name) == IF name \in DOMAIN w THEN w[name] ELSE Page(<<>>)

PageOf(name) == PageFor(web, name)

\* Lines 32-52 on one page: the names of the page, or [] when the page fails
\* inside the try block; a browser that cannot be launched raises
\* (create_browser_context runs before the try).
search_page(page) ==
    CASE page.kind = "nolaunch" -> [raised |-> TRUE, names |-> <<>>]
      [] page.kind = "timeout" -> [raised |-> FALSE, names |-> <<>>]
      [] OTHER -> [raised |-> FALSE, names |-> fromkeys(entitynames(page.elems))]

\* search_page of every page of every scenario, worked out once.
SearchResults ==
    [w \in {s.web : s \in Scenarios} |-> [name \in DOMAIN w |-> search_page(w[name])]]

NoResults == search_page(Page(<<>>))

\* get_subsidiaries_single_search: what the provider returns, or raises, for
\* a company name.
get_subsidiaries_single_search(name) ==
    IF name \in DOMAIN web THEN SearchResults[web][name] ELSE NoResults

\* ------------------------------------------------------ the result mappings
EmptyMap == <<>>
Leaf == [subsidiaries |-> EmptyMap]

\* d[key] = value of a Python dict: an existing key is overwritten.
Put(d, key, value) == (key :> value) @@ d

\* count_companies (lines 116-120): 1 for the node plus the counts of the
\* nodes of its "subsidiaries" mapping.
RECURSIVE count_companies(_), count_items(_, _)
count_companies(node) == 1 + count_items(node.subsidiaries, DOMAIN node.subsidiaries)

count_items(d, keys) ==
    IF keys = {} THEN 0
    ELSE LET key == CHOOSE key \in keys : TRUE
         IN count_companies(d[key]) + count_items(d, keys \ {key})

\* Faulty variant: the wrapper node handed to count_companies is counted too.
Returned_with_wrapper(results) ==
    [company |-> company_name,
     subsidiaries |-> results,
     total_companies_found |->
        IF DOMAIN results # {}
        THEN count_companies([subsidiaries |-> results])
        ELSE 0]

\* Lines 122-126: the count is taken only when the mapping is not empty.
Returned(results) ==
    [company |-> company_name,
     subsidiaries |-> results,
     total_companies_found |->
        IF DOMAIN results # {}
        THEN count_companies([subsidiaries |-> results]) - 1
        ELSE 0]

\* ------------------------------------------------------------- search_level
\* Line 87: the base case of search_level.
BaseCase(companies_to_search, current_depth) ==
    current_depth > max_depth \/ companies_to_search = <<>>

\* Line 91: ThreadPoolExecutor(max_workers=...) raises ValueError unless
\* max_workers is positive.
PoolRejected == max_workers <= 0

\* Faulty variant: the names found at max_depth are handed to a child call too.
MayDescendInclusive(current_depth) == current_depth <= max_depth

\* Line 104: a company's names are searched only below max_depth.
MayDescend(current_depth) == current_depth < max_depth

\* Faulty variant: the child call is given the depth of its parent.
ChildDepthSame(current_depth) == current_depth

\* Line 105: the depth handed to the child call.
ChildDepth(current_depth) == current_depth + 1

\* The state of a search_level call that got past line 91: one submitted,
\* not yet started work item per company (lines 92-95).
Frame(companies_to_search, current_depth) ==
    [current_depth |-> current_depth,
     companies_to_search |-> companies_to_search,
     st |-> [i \in 1..Len(companies_to_search) |-> "queued"],
     res |-> [i \in 1..Len(companies_to_search) |-> <<>>],
     taken |-> {},
     level_results |-> EmptyMap,
     cur |-> 0]

Tasks(k) == 1..Len(stack[k].companies_to_search)

\* The futures of the innermost call, the one the main thread is waiting in.
TopTasks == IF stack = <<>> THEN {} ELSE Tasks(Len(stack))

Running(k) == {i \in Tasks(k) : stack[k].st[i] \in {"lock", "sleep", "lookup"}}

Finished(k) == {i \in Tasks(k) : stack[k].st[i] \in {"skipped", "done", "raised"}}

\* A task is named by the companies from the root down to its own.
PathOf(k, i) ==
    [j \in 1..k |-> IF j < k
                    THEN stack[j].companies_to_search[stack[j].cur]
                    ELSE stack[k].companies_to_search[i]]

\* What the history records of a task: its path, its company and the
\* current_depth its search_single_company call was given.
Task(k, i) ==
    [path |-> PathOf(k, i),
     company |-> stack[k].companies_to_search[i],
     depth |-> stack[k].current_depth]

\* History: the raw form under which each normalized name was discovered
\* first, the names of a lookup result taken in list order.
Discover(seen, names) ==
    [key \in DOMAIN seen \cup {company_lower(names[i]) : i \in 1..Len(names)} |->
        IF key \in DOMAIN seen THEN seen[key]
        ELSE names[CHOOSE i \in 1..Len(names) :
                      /\ company_lower(names[i]) = key
                      /\ \A j \in 1..(i - 1) : company_lower(names[j]) # key]]

Init ==
    /\ \E s \in Scenarios :
          /\ company_name = s.root
          /\ web = s.web
    /\ max_depth \in 0..MaxDepthBound
    /\ max_workers \in 0..MaxWorkersBound
    /\ pc = "start"
    /\ searched_companies = {}
    /\ stack = <<>>
    /\ hierarchy = [company |-> company_name, subsidiaries |-> EmptyMap,
                    total_companies_found |-> 0]
    /\ lookedUp = {}
    /\ markedBy = EmptyMap
    /\ raisedAt = {}
    /\ firstSeen = (company_lower(company_name) :> company_name)

\* Lines 62-71 and the call of line 114 up to the creation of the pool; with
\* the base case taken the call returns at once and lines 122-126 follow.
get_subsidiaries_hierarchy ==
    /\ pc = "start"
    /\ IF BaseCase(<<company_name>>, 1)
       THEN /\ hierarchy' = Returned(EmptyMap)
            /\ pc' = "returned"
            /\ stack' = stack
       ELSE IF PoolRejected
       THEN /\ pc' = "raised"
            /\ UNCHANGED <<hierarchy, stack>>
       ELSE /\ stack' = <<Frame(<<company_name>>, 1)>>
            /\ pc' = "level"
            /\ UNCHANGED hierarchy
    /\ UNCHANGED <<config, searched_companies, lookedUp, markedBy, raisedAt, firstSeen>>

\* Faulty variant: a thread is started for every submitted call, whatever
\* max_workers is.
executor_start_unbounded(k, i) ==
    /\ pc = "level"
    /\ stack[k].st[i] = "queued"
    /\ \A j \in 1..(i - 1) : stack[k].st[j] # "queued"
    /\ stack' = [stack EXCEPT ![k].st[i] = "lock"]
    /\ UNCHANGED <<config, pc, searched_companies, hierarchy, lookedUp, markedBy,
                   raisedAt, firstSeen>>

\* Faulty variant: the pool starts one thread more than max_workers.
executor_start_offbyone(k, i) ==
    /\ pc = "level"
    /\ stack[k].st[i] = "queued"
    /\ \A j \in 1..(i - 1) : stack[k].st[j] # "queued"
    /\ Cardinality(Running(k)) <= max_workers
    /\ stack' = [stack EXCEPT ![k].st[i] = "lock"]
    /\ UNCHANGED <<config, pc, searched_companies, hierarchy, lookedUp, markedBy,
                   raisedAt, firstSeen>>

\* A thread of the pool of call k takes the next work item of its queue: the
\* queue is first-in first-out and the pool has at most max_workers threads.
executor_start(k, i) ==
    /\ pc = "level"
    /\ stack[k].st[i] = "queued"
    /\ \A j \in 1..(i - 1) : stack[k].st[j] # "queued"
    /\ Cardinality(Running(k)) < max_workers
    /\ stack' = [stack EXCEPT ![k].st[i] = "lock"]
    /\ UNCHANGED <<config, pc, searched_companies, hierarchy, lookedUp, markedBy,
                   raisedAt, firstSeen>>

\* Faulty variant: the check is made but the name is never added to the set.
check_and_mark_noadd(k, i) ==
    /\ pc = "level"
    /\ stack[k].st[i] = "lock"
    /\ LET key == company_lower(stack[k].companies_to_search[i])
       IN IF key \in searched_companies
          THEN /\ stack' = [stack EXCEPT ![k].st[i] = "skipped"]
               /\ UNCHANGED markedBy
          ELSE /\ markedBy' = (key :> Task(k, i)) @@ markedBy
               /\ stack' = [stack EXCEPT ![k].st[i] = "sleep"]
    /\ UNCHANGED <<config, pc, searched_companies, hierarchy, lookedUp, raisedAt, firstSeen>>

\* Faulty variant: the worker that marked goes to the provider at once, the
\* sleep of line 81 left out.
check_and_mark_nosleep(k, i) ==
    /\ pc = "level"
    /\ stack[k].st[i] = "lock"
    /\ LET key == company_lower(stack[k].companies_to_search[i])
       IN IF key \in searched_companies
          THEN /\ stack' = [stack EXCEPT ![k].st[i] = "skipped"]
               /\ UNCHANGED <<searched_companies, markedBy>>
          ELSE /\ searched_companies' = searched_companies \cup {key}
               /\ markedBy' = (key :> Task(k, i)) @@ markedBy
               /\ stack' = [stack EXCEPT ![k].st[i] = "lookup"]
    /\ UNCHANGED <<config, pc, hierarchy, lookedUp, raisedAt, firstSeen>>

\* Lines 74-78: the check-and-mark under searched_lock.
check_and_mark(k, i) ==
    /\ pc = "level"
    /\ stack[k].st[i] = "lock"
    /\ LET key == company_lower(stack[k].companies_to_search[i])
       IN IF key \in searched_companies
          THEN /\ stack' = [stack EXCEPT ![k].st[i] = "skipped"]
               /\ UNCHANGED <<searched_companies, markedBy>>
          ELSE /\ searched_companies' = searched_companies \cup {key}
               /\ markedBy' = (key :> Task(k, i)) @@ markedBy
               /\ stack' = [stack EXCEPT ![k].st[i] = "sleep"]
    /\ UNCHANGED <<config, pc, hierarchy, lookedUp, raisedAt, firstSeen>>

\* Lines 80-81: time.sleep(delay_between_searches).
rate_limit_sleep(k, i) ==
    /\ pc = "level"
    /\ stack[k].st[i] = "sleep"
    /\ stack' = [stack EXCEPT ![k].st[i] = "lookup"]
    /\ UNCHANGED <<config, pc, searched_companies, hierarchy, lookedUp, markedBy,
                   raisedAt, firstSeen>>

\* Faulty variant: a company whose lookup failed is taken out of
\* searched_companies again.
lookup_unmark_on_failure(k, i) ==
    /\ pc = "level"
    /\ stack[k].st[i] = "lookup"
    /\ LET company == stack[k].companies_to_search[i]
           r == get_subsidiaries_single_search(company)
       IN /\ lookedUp' = lookedUp \cup {Task(k, i)}
          /\ searched_companies' =
                 IF PageOf(company).kind # "ok"
                 THEN searched_companies \ {company_lower(company)}
                 ELSE searched_companies
          /\ IF r.raised
             THEN /\ stack' = [stack EXCEPT ![k].st[i] = "raised"]
                  /\ raisedAt' = raisedAt \cup {Task(k, i)}
                  /\ UNCHANGED firstSeen
             ELSE /\ stack' = [stack EXCEPT ![k].st[i] = "done", ![k].res[i] = r.names]
                  /\ firstSeen' = Discover(firstSeen, r.names)
                  /\ UNCHANGED raisedAt
    /\ UNCHANGED <<config, pc, hierarchy, markedBy>>

\* Faulty variant: the worker itself writes the node of its company into the
\* mapping of its level.
lookup_writes_node(k, i) ==
    /\ pc = "level"
    /\ stack[k].st[i] = "lookup"
    /\ LET r == get_subsidiaries_single_search(stack[k].companies_to_search[i])
       IN /\ lookedUp' = lookedUp \cup {Task(k, i)}
          /\ IF r.raised
             THEN /\ stack' = [stack EXCEPT ![k].st[i] = "raised"]
                  /\ raisedAt' = raisedAt \cup {Task(k, i)}
                  /\ UNCHANGED firstSeen
             ELSE /\ stack' = [stack EXCEPT
                                 ![k].st[i] = "done", ![k].res[i] = r.names,
                                 ![k].level_results =
                                     Put(@, stack[k].companies_to_search[i], Leaf)]
                  /\ firstSeen' = Discover(firstSeen, r.names)
                  /\ UNCHANGED raisedAt
    /\ UNCHANGED <<config, pc, searched_companies, hierarchy, markedBy>>

\* Faulty variant: a page that does not answer is waited for without a timeout.
lookup_no_timeout(k, i) ==
    /\ pc = "level"
    /\ stack[k].st[i] = "lookup"
    /\ PageOf(stack[k].companies_to_search[i]).kind # "timeout"
    /\ LET r == get_subsidiaries_single_search(stack[k].companies_to_search[i])
       IN /\ lookedUp' = lookedUp \cup {Task(k, i)}
          /\ IF r.raised
             THEN /\ stack' = [stack EXCEPT ![k].st[i] = "raised"]
                  /\ raisedAt' = raisedAt \cup {Task(k, i)}
                  /\ UNCHANGED firstSeen
             ELSE /\ stack' = [stack EXCEPT ![k].st[i] = "done", ![k].res[i] = r.names]
                  /\ firstSeen' = Discover(firstSeen, r.names)
                  /\ UNCHANGED raisedAt
    /\ UNCHANGED <<config, pc, searched_companies, hierarchy, markedBy>>

\* Lines 83-84: the provider is called and the future gets its result, or the
\* exception the provider let through.
lookup(k, i) ==
    /\ pc = "level"
    /\ stack[k].st[i] = "lookup"
    /\ LET r == get_subsidiaries_single_search(stack[k].companies_to_search[i])
       IN /\ lookedUp' = lookedUp \cup {Task(k, i)}
          /\ IF r.raised
             THEN /\ stack' = [stack EXCEPT ![k].st[i] = "raised"]
                  /\ raisedAt' = raisedAt \cup {Task(k, i)}
                  /\ UNCHANGED firstSeen
             ELSE /\ stack' = [stack EXCEPT ![k].st[i] = "done", ![k].res[i] = r.names]
                  /\ firstSeen' = Discover(firstSeen, r.names)
                  /\ UNCHANGED raisedAt
    /\ UNCHANGED <<config, pc, searched_companies, hierarchy, markedBy>>

\* Faulty variant: no except clause, the exception of the future leaves the call.
except_missing(i) ==
    /\ stack' = stack
    /\ pc' = "raised"

\* Lines 110-111: an exception of the future is caught and printed, and the
\* loop goes on with the next future.
except_clause(i) ==
    /\ stack' = [stack EXCEPT ![Len(stack)].taken = @ \cup {i}]
    /\ pc' = pc

\* Lines 98-109: an already searched company is passed over; otherwise the
\* company gets its node: with names found it is the child call below
\* max_depth, and the names as leaves at max_depth.
try_clause(i) ==
    LET k == Len(stack)
        f == stack[k]
        company == f.companies_to_search[i]
        subsidiaries == f.res[i]
    IN /\ pc' = pc
       /\ IF f.st[i] = "skipped"
          THEN stack' = [stack EXCEPT ![k].taken = @ \cup {i}]
          ELSE IF subsidiaries = <<>>
          THEN stack' = [stack EXCEPT ![k].taken = @ \cup {i},
                                      ![k].level_results = Put(@, company, Leaf)]
          ELSE IF MayDescend(f.current_depth)
          THEN IF BaseCase(subsidiaries, ChildDepth(f.current_depth)) \/ PoolRejected
               THEN stack' = [stack EXCEPT ![k].taken = @ \cup {i},
                                           ![k].level_results = Put(@, company, Leaf)]
               ELSE stack' = Append([stack EXCEPT ![k].taken = @ \cup {i},
                                                  ![k].cur = i,
                                                  ![k].level_results = Put(@, company, Leaf)],
                                    Frame(subsidiaries, ChildDepth(f.current_depth)))
          ELSE stack' = [stack EXCEPT
                           ![k].taken = @ \cup {i},
                           ![k].level_results =
                               Put(@, company,
                                   [subsidiaries |->
                                       [sub \in Range(subsidiaries) |-> Leaf]])]

\* Faulty variant: the futures of a level are taken only after every worker
\* of the level has finished.
collect_after_level(i) ==
    /\ pc = "level"
    /\ Finished(Len(stack)) = Tasks(Len(stack))
    /\ i \in Finished(Len(stack)) \ stack[Len(stack)].taken
    /\ IF stack[Len(stack)].st[i] = "raised"
       THEN except_clause(i)
       ELSE try_clause(i)
    /\ UNCHANGED <<config, searched_companies, hierarchy, lookedUp, markedBy,
                   raisedAt, firstSeen>>

\* Lines 96-111: the main thread, waiting in the innermost call, takes a
\* finished future.
collect(i) ==
    /\ pc = "level"
    /\ i \in Finished(Len(stack)) \ stack[Len(stack)].taken
    /\ IF stack[Len(stack)].st[i] = "raised"
       THEN except_clause(i)
       ELSE try_clause(i)
    /\ UNCHANGED <<config, searched_companies, hierarchy, lookedUp, markedBy,
                   raisedAt, firstSeen>>

\* Faulty variant: the call returns once the futures finished so far are
\* taken, without waiting for the rest of its pool.
search_level_return_early ==
    /\ pc = "level"
    /\ LET k == Len(stack)
           f == stack[k]
       IN /\ f.taken = Finished(k)
          /\ f.taken # {}
          /\ IF k = 1
             THEN /\ hierarchy' = Returned(f.level_results)
                  /\ pc' = "returned"
                  /\ stack' = <<>>
             ELSE LET parent == stack[k - 1]
                      company == parent.companies_to_search[parent.cur]
                  IN /\ stack' = [SubSeq(stack, 1, k - 1) EXCEPT
                                    ![k - 1].cur = 0,
                                    ![k - 1].level_results =
                                        Put(@, company, [subsidiaries |-> f.level_results])]
                     /\ UNCHANGED <<hierarchy, pc>>
    /\ UNCHANGED <<config, searched_companies, lookedUp, markedBy, raisedAt, firstSeen>>

\* Line 112, after the loop has taken every future and the pool has shut
\* down: the mapping goes to the caller, which is line 106 of the parent call
\* or line 114 followed by the count of lines 116-126.
search_level_return ==
    /\ pc = "level"
    /\ LET k == Len(stack)
           f == stack[k]
       IN /\ f.taken = Tasks(k)
          /\ IF k = 1
             THEN /\ hierarchy' = Returned(f.level_results)
                  /\ pc' = "returned"
                  /\ stack' = <<>>
             ELSE LET parent == stack[k - 1]
                      company == parent.companies_to_search[parent.cur]
                  IN /\ stack' = [SubSeq(stack, 1, k - 1) EXCEPT
                                    ![k - 1].cur = 0,
                                    ![k - 1].level_results =
                                        Put(@, company, [subsidiaries |-> f.level_results])]
                     /\ UNCHANGED <<hierarchy, pc>>
    /\ UNCHANGED <<config, searched_companies, lookedUp, markedBy, raisedAt, firstSeen>>

Next ==
    \/ get_subsidiaries_hierarchy
    \/ \E k \in 1..Len(stack) : \E i \in Tasks(k) : executor_start(k, i)
    \/ \E k \in 1..Len(stack) : \E i \in Tasks(k) : check_and_mark(k, i)
    \/ \E k \in 1..Len(stack) : \E i \in Tasks(k) : rate_limit_sleep(k, i)
    \/ \E k \in 1..Len(stack) : \E i \in Tasks(k) : lookup(k, i)
    \/ \E i \in TopTasks : collect(i)
    \/ search_level_return

Spec == Init /\ [][Next]_vars

\* Every thread that can run eventually runs.
FairSpec == Spec /\ WF_vars(Next)


\* ================================================================== claims
Last(p) == p[Len(p)]

\* The key paths of a mapping: one path per node of the tree.
RECURSIVE PathsOf(_)
PathsOf(d) ==
    UNION { {<<key>>} \cup { <<key>> \o p : p \in PathsOf(d[key].subsidiaries) }
            : key \in DOMAIN d }

RECURSIVE NodeAt(_, _)
NodeAt(d, p) == IF Len(p) = 1 THEN d[p[1]] ELSE NodeAt(d[p[1]].subsidiaries, Tail(p))

ReturnedPaths == PathsOf(hierarchy.subsidiaries)

\* The tasks that got past the check-and-mark.
Proceeded ==
    lookedUp \cup
    UNION { { Task(k, i) : i \in {j \in Tasks(k) : stack[k].st[j] \in {"sleep", "lookup"}} }
            : k \in 1..Len(stack) }

\* C1: the provider is called at most once per normalized company name: of
\* the tasks whose names have the same normalized form, one at most gets past
\* the check-and-mark, whatever their depth and pool, and a task that is
\* turned away was turned away for another task's mark and looks nothing up.
C1_LookupOncePerName ==
    /\ \A t, u \in Proceeded :
          company_lower(t.company) = company_lower(u.company) => t = u
    /\ \A k \in 1..Len(stack) : \A i \in Tasks(k) :
          LET key == company_lower(stack[k].companies_to_search[i])
          IN stack[k].st[i] = "skipped" =>
                /\ key \in DOMAIN markedBy
                /\ markedBy[key].path # PathOf(k, i)
                /\ stack[k].res[i] = <<>>

\* C1 witness: a task was turned away as already searched while another task
\* looked the same normalized name up.
C1_Witness ==
    \E k \in 1..Len(stack) : \E i \in Tasks(k) :
        /\ stack[k].st[i] = "skipped"
        /\ \E t \in lookedUp :
              /\ company_lower(t.company) = company_lower(stack[k].companies_to_search[i])
              /\ t.path # PathOf(k, i)

\* C2: total_companies_found is the number of nodes of the returned tree, the
\* node of the root company not counted; 0 when the root has no subsidiaries.
C2_CountExcludesRoot ==
    pc = "returned" =>
        hierarchy.total_companies_found =
            Cardinality(ReturnedPaths \ {<<company_name>>})

\* C3: in the returned tree every company, taken by its normalized name, is
\* at most once.
C3_CompanyOnceInTree ==
    pc = "returned" =>
        \A p, q \in ReturnedPaths :
            company_lower(Last(p)) = company_lower(Last(q)) => p = q

\* The run in which every worker finishes, and the child level of its company
\* is searched to the end, before the next worker of its level starts.
RECURSIVE SequentialLevel(_, _, _)
SequentialLevel(names, depth, seen) ==
    IF names = <<>> THEN [results |-> EmptyMap, seen |-> seen]
    ELSE LET company == Head(names)
             key == company_lower(company)
         IN IF key \in seen THEN SequentialLevel(Tail(names), depth, seen)
            ELSE LET r == get_subsidiaries_single_search(company)
                     own == IF r.raised \/ r.names = <<>>
                            THEN [results |-> EmptyMap, seen |-> seen \cup {key}]
                            ELSE IF MayDescend(depth)
                            THEN SequentialLevel(r.names, ChildDepth(depth), seen \cup {key})
                            ELSE [results |-> [sub \in Range(r.names) |-> Leaf],
                                  seen |-> seen \cup {key}]
                     rest == SequentialLevel(Tail(names), depth, own.seen)
                 IN IF r.raised THEN rest
                    ELSE [results |-> Put(rest.results, company,
                                          [subsidiaries |-> own.results]),
                          seen |-> rest.seen]

SequentialTotal ==
    IF BaseCase(<<company_name>>, 1) THEN 0
    ELSE Returned(SequentialLevel(<<company_name>>, 1, {}).results).total_companies_found

\* C4: for a fixed provider, max_depth and max_workers the count is the same
\* in every interleaving: it is the count of the sequential run.
C4_CountSameInEveryRun ==
    pc = "returned" => hierarchy.total_companies_found = SequentialTotal

\* C5: no node of the returned tree is more than max_depth levels below the
\* node of the root company, and a node max_depth levels below it is a leaf.
C5_DepthBound ==
    (pc = "returned" /\ max_depth >= 1) =>
        \A p \in ReturnedPaths :
            /\ Len(p) - 1 <= max_depth
            /\ Len(p) - 1 = max_depth =>
                  DOMAIN NodeAt(hierarchy.subsidiaries, p).subsidiaries = {}

\* C5 witness: a returned tree with a node max_depth levels below the root.
C5_Witness ==
    /\ pc = "returned"
    /\ max_depth >= 1
    /\ \E p \in ReturnedPaths : Len(p) - 1 = max_depth

\* The main thread takes future i of the innermost call in this step.
Takes(i) ==
    /\ stack # <<>>
    /\ i \in Tasks(Len(stack)) \ stack[Len(stack)].taken
    /\ Len(stack') >= Len(stack)
    /\ i \in stack'[Len(stack)].taken

\* C6: nothing is looked up or marked at a depth beyond max_depth, and the
\* step that takes the names found at max_depth records each as a leaf and
\* neither marks nor looks up.
C6_NoWorkBeyondMaxDepth ==
    [][ /\ \A t \in lookedUp' : t.depth <= max_depth
        /\ \A key \in DOMAIN markedBy' : markedBy'[key].depth <= max_depth
        /\ \A i \in TopTasks :
              LET f == stack[Len(stack)]
              IN (/\ Takes(i)
                  /\ f.st[i] = "done"
                  /\ f.res[i] # <<>>
                  /\ f.current_depth = max_depth)
                 => /\ searched_companies' = searched_companies
                    /\ lookedUp' = lookedUp
                    /\ Len(stack') = Len(stack)
                    /\ stack'[Len(stack)].level_results[f.companies_to_search[i]]
                          = [subsidiaries |-> [sub \in Range(f.res[i]) |-> Leaf]]
      ]_vars

\* C6 witness: a name found at max_depth is in its parent's node and is not
\* in the set of searched companies.
C6_Witness ==
    \E k \in 1..Len(stack) : \E i \in stack[k].taken :
        /\ stack[k].current_depth = max_depth
        /\ stack[k].st[i] = "done"
        /\ \E sub \in Range(stack[k].res[i]) :
              /\ company_lower(sub) \notin searched_companies
              /\ sub \in DOMAIN stack[k].level_results[stack[k].companies_to_search[i]].subsidiaries

\* The lookup of task i of call k failed: the page timed out, or the browser
\* did not start.
LookupFailed(k, i) ==
    /\ stack[k].st[i] \in {"done", "raised"}
    /\ PageOf(stack[k].companies_to_search[i]).kind # "ok"

\* The node of task y of call k holds what the lookup of y found: at
\* max_depth every name, and below it every name but those another task had
\* claimed and those whose own future raised.
Populated(k, y) ==
    LET f == stack[k]
        node == f.level_results[f.companies_to_search[y]].subsidiaries
        found == Range(f.res[y])
        child(sub) == Append(PathOf(k, y), sub)
    IN IF MayDescend(f.current_depth)
       THEN /\ DOMAIN node \subseteq found
            /\ \A sub \in found \ DOMAIN node :
                  \/ markedBy[company_lower(sub)].path # child(sub)
                  \/ \E t \in raisedAt : t.path = child(sub)
       ELSE DOMAIN node = found

\* C7: a company whose lookup succeeded has its node, populated from its own
\* lookup alone, whatever failed for the other companies of its level, and
\* the call does not raise.
C7_FailureIsolation ==
    /\ (max_depth >= 1 /\ max_workers >= 1) => pc # "raised"
    /\ \A k \in 1..Len(stack) : \A x, y \in Tasks(k) :
          (/\ LookupFailed(k, x)
           /\ y \in stack[k].taken
           /\ y # stack[k].cur
           /\ stack[k].st[y] = "done"
           /\ PageOf(stack[k].companies_to_search[y]).kind = "ok")
          => /\ stack[k].companies_to_search[y] \in DOMAIN stack[k].level_results
             /\ Populated(k, y)

\* C7 witness: in one level one lookup timed out, one raised, and a third
\* company has its node with a name in it.
C7_Witness ==
    \E k \in 1..Len(stack) : \E x, z, y \in Tasks(k) :
        /\ stack[k].st[x] = "done" /\ LookupFailed(k, x)
        /\ stack[k].st[z] = "raised" /\ z \in stack[k].taken
        /\ y \in stack[k].taken /\ y # stack[k].cur /\ stack[k].st[y] = "done"
        /\ DOMAIN stack[k].level_results[stack[k].companies_to_search[y]].subsidiaries # {}

\* C8: of raw names with the same normalized form only the one discovered
\* first is a key of the returned tree.
C8_FirstSeenFormOnly ==
    pc = "returned" =>
        \A p \in ReturnedPaths : Last(p) = firstSeen[company_lower(Last(p))]

\* C9: a call with a non-positive max_depth or max_workers is rejected with
\* an error: nothing is marked, nothing looked up, no Hierarchy returned.
C9_BadConfigRejected ==
    (max_depth <= 0 \/ max_workers <= 0) =>
        /\ pc \in {"start", "raised"}
        /\ searched_companies = {}
        /\ lookedUp = {}

\* C10: with positive max_depth and max_workers the call returns in the end,
\* and the lookups made are never more than the normalized names discovered.
C10_ReturnsWithBoundedWork ==
    /\ [](Cardinality(lookedUp) <= Cardinality(DOMAIN firstSeen))
    /\ (max_depth >= 1 /\ max_workers >= 1) ~> (pc = "returned")

\* C10 witness: a returned call over cyclic ownership, a name having been
\* discovered again after its lookup.
C10_Witness ==
    /\ pc = "returned"
    /\ \E t, u \in lookedUp :
          /\ t # u
          /\ company_lower(t.company) \in
                {company_lower(n) : n \in Range(get_subsidiaries_single_search(u.company).names)}
          /\ company_lower(u.company) \in
                {company_lower(n) : n \in Range(get_subsidiaries_single_search(t.company).names)}

\* C11: a search_level call returns only when every worker it dispatched has
\* completed and its result has been taken, and no child call of it is open:
\* at the step that returns the level none of its tasks is queued, marking,
\* sleeping or looking up.
C11_ReturnAfterAllWorkers ==
    [][ Len(stack') < Len(stack) =>
          LET k == Len(stack)
          IN /\ Len(stack') = k - 1
             /\ stack[k].cur = 0
             /\ Finished(k) = Tasks(k)
             /\ stack[k].taken = Tasks(k)
             /\ Running(k) = {}
      ]_vars

\* C11 witness: a child call of several companies has returned its mapping
\* into the node of its parent company.
C11_Witness ==
    \E k \in 1..Len(stack) : \E i \in stack[k].taken :
        /\ stack[k].cur = 0
        /\ stack[k].st[i] = "done"
        /\ Len(stack[k].res[i]) >= 2
        /\ MayDescend(stack[k].current_depth)
        /\ DOMAIN stack[k].level_results[stack[k].companies_to_search[i]].subsidiaries # {}

\* The calls that are open before and after a step.
Common == 1..(IF Len(stack') < Len(stack) THEN Len(stack') ELSE Len(stack))

\* C12: a company is marked, then its worker pauses, then the provider is
\* called, and a child level exists only for a company whose lookup has
\* returned; a worker whose mark failed neither pauses nor looks up.
C12_MarkPauseLookupOrder ==
    [][ /\ \A k \in Common : \A i \in Tasks(k) :
              LET a == stack[k].st[i]
                  b == stack'[k].st[i]
                  key == company_lower(stack[k].companies_to_search[i])
              IN /\ (b = "sleep" /\ a # "sleep") =>
                       (a = "lock" /\ key \notin searched_companies
                                   /\ key \in searched_companies')
                 /\ (b = "lookup" /\ a # "lookup") => a = "sleep"
                 /\ (b \in {"done", "raised"} /\ a # b) =>
                       (a = "lookup" /\ Task(k, i) \in lookedUp' \ lookedUp)
                 /\ b = "skipped" =>
                       (a \in {"lock", "skipped"} /\ Task(k, i) \notin lookedUp')
                 /\ a = "skipped" => b = "skipped"
        /\ lookedUp' # lookedUp =>
              \E k \in 1..Len(stack) : \E i \in Tasks(k) :
                  /\ stack[k].st[i] = "lookup"
                  /\ lookedUp' = lookedUp \cup {Task(k, i)}
        /\ \A k \in 2..Len(stack') :
              LET parent == stack'[k - 1]
              IN /\ parent.cur # 0
                 /\ parent.st[parent.cur] = "done"
                 /\ stack'[k].companies_to_search = parent.res[parent.cur]
                 /\ \E t \in lookedUp' :
                       /\ t.company = parent.companies_to_search[parent.cur]
                       /\ t.depth = parent.current_depth
      ]_vars

\* C12 witness: a name of a child level is past its mark while a task that
\* was turned away is in the same traversal.
C12_Witness ==
    /\ \E k \in 2..Len(stack) : \E i \in Tasks(k) :
          stack[k].st[i] \in {"sleep", "lookup", "done"}
    /\ \E k \in 1..Len(stack) : \E i \in Tasks(k) : stack[k].st[i] = "skipped"

\* The workers running in the pools of all open calls.
AllRunning == UNION { { <<k, i>> : i \in Running(k) } : k \in 1..Len(stack) }

\* The deepest level being processed.
Deepest == IF stack = <<>> THEN 0 ELSE stack[Len(stack)].current_depth

\* C13 as stated: the workers running at once are at most
\* concurrency_limit^d, d the deepest level being processed, so with a limit
\* of 1 at most one worker is ever running.
C13_RunningAtMostLimitPowerDepth ==
    stack # <<>> => Cardinality(AllRunning) <= max_workers ^ Deepest

\* C13 amended: the workers running at once are at most concurrency_limit * d,
\* d the deepest level being processed.
C13_RunningAtMostLimitTimesDepth ==
    Cardinality(AllRunning) <= max_workers * Deepest

\* C13 witness: with a limit of 1 two workers, of two nested pools, run at
\* the same time.
C13_Witness ==
    /\ max_workers = 1
    /\ Cardinality(AllRunning) = 2

\* C14: within one search_level call at most max_workers of the workers it
\* dispatched are running (marking, sleeping or looking up) at once, and a
\* name still waiting when the pool is full cannot start.
C14_PoolAtMostMaxWorkers ==
    \A k \in 1..Len(stack) :
        /\ Cardinality(Running(k)) <= max_workers
        /\ Cardinality(Running(k)) = max_workers =>
               \A i \in Tasks(k) : ~ ENABLED executor_start(k, i)

\* C14 witness: a level with more names than max_workers, the pool full and
\* a name still waiting.
C14_Witness ==
    \E k \in 1..Len(stack) :
        /\ Len(stack[k].companies_to_search) > max_workers
        /\ Cardinality(Running(k)) = max_workers
        /\ \E i \in Tasks(k) : stack[k].st[i] = "queued"

\* C15: every company whose check-and-mark succeeded and whose future has
\* been collected is a key of the result mapping of the level that
\* dispatched it, also when its lookup failed.
C15_MarkedCompanyHasNode ==
    \A k \in 1..Len(stack) :
        \A i \in stack[k].taken :
            stack[k].st[i] # "skipped" =>
                stack[k].companies_to_search[i] \in DOMAIN stack[k].level_results

\* C16: the traversal does not wait for a whole level before descending: a
\* finished worker's result can be taken, and its child level opened, whatever
\* its siblings are doing, so a lookup at depth d+1 can be in progress while
\* a worker of depth d has not finished (the witness).
C16_DescentDoesNotWaitForLevel ==
    pc = "level" =>
        \A i \in Finished(Len(stack)) \ stack[Len(stack)].taken :
            ENABLED collect(i)

\* C16 witness: a lookup at depth d+1 is in progress while a worker
\* dispatched at depth d is still looking up.
C16_Witness ==
    \E k \in 1..(Len(stack) - 1) :
        /\ stack[k + 1].current_depth = stack[k].current_depth + 1
        /\ \E i \in Tasks(k) : stack[k].st[i] = "lookup"
        /\ \E j \in Tasks(k + 1) : stack[k + 1].st[j] = "lookup"

\* A step of a pool worker: the status of a submitted call changes.
WorkerStep ==
    \E k \in Common : \E i \in Tasks(k) : stack'[k].st[i] # stack[k].st[i]

\* C17: searched_companies is the only state the pool workers write. A level's
\* mapping is written only by the thread executing its search_level call:
\* while the call is the innermost one, and in its parent when the child call
\* returns into the node of the company being expanded. No existing node
\* changes otherwise, and the returned hierarchy never changes.
C17_OnlyVisitedSetShared ==
    [][ /\ WorkerStep =>
              /\ \A k \in Common :
                     stack'[k].level_results = stack[k].level_results
              /\ Len(stack') = Len(stack)
              /\ hierarchy' = hierarchy
        /\ searched_companies' # searched_companies => WorkerStep
        /\ \A k \in Common :
              LET old == stack[k].level_results
                  new == stack'[k].level_results
                  returns == k = Len(stack) - 1 /\ Len(stack') = k
              IN /\ new # old => ~ WorkerStep /\ (k = Len(stack) \/ returns)
                 /\ DOMAIN old \subseteq DOMAIN new
                 /\ \A y \in DOMAIN old :
                       new[y] # old[y] =>
                           /\ returns
                           /\ y = stack[k].companies_to_search[stack[k].cur]
                           /\ old[y] = Leaf
                           /\ new[y] = [subsidiaries |->
                                           stack[k + 1].level_results]
        /\ pc = "returned" => hierarchy' = hierarchy
      ]_vars

\* C17 witness: a child mapping has been handed to its parent while workers
\* of the parent's pool are still running, and several workers have written
\* searched_companies.
C17_Witness ==
    /\ Cardinality(searched_companies) >= 2
    /\ \E k \in 1..Len(stack) :
          /\ Running(k) # {}
          /\ \E y \in DOMAIN stack[k].level_results :
                stack[k].level_results[y].subsidiaries # EmptyMap

\* C18: searched_companies is empty when get_subsidiaries_hierarchy starts
\* and only grows. It changes only by a check-and-mark that did not find the
\* name, which adds exactly that normalized name; every other step leaves it
\* as it is, so a company that was looked up, failed or not, stays marked.
C18_VisitedSetOnlyGrows ==
    /\ [](pc = "start" => searched_companies = {})
    /\ [][ /\ searched_companies \subseteq searched_companies'
           /\ searched_companies' # searched_companies =>
                 \E k \in Common : \E i \in Tasks(k) :
                     LET key == company_lower(stack[k].companies_to_search[i])
                     IN /\ stack[k].st[i] = "lock"
                        /\ stack'[k].st[i] = "sleep"
                        /\ key \notin searched_companies
                        /\ searched_companies' = searched_companies \cup {key}
           /\ \A k \in Common : \A i \in Tasks(k) :
                 /\ stack[k].st[i] = "lock" /\ stack'[k].st[i] = "skipped"
                        => searched_companies' = searched_companies
                 /\ stack[k].st[i] \in {"sleep", "lookup"}
                      /\ stack'[k].st[i] # stack[k].st[i]
                        => searched_companies' = searched_companies
           /\ ~ WorkerStep => searched_companies' = searched_companies
           /\ \A t \in lookedUp' :
                 company_lower(t.company) \in searched_companies'
         ]_vars

\* C18 witness: a company whose lookup failed is met again and passed over.
C18_Witness ==
    \E k \in 1..Len(stack) : \E i \in Tasks(k) :
        /\ LookupFailed(k, i)
        /\ \E k2 \in 1..Len(stack) : \E j \in Tasks(k2) :
              /\ <<k2, j>> # <<k, i>>
              /\ stack[k2].st[j] = "skipped"
              /\ company_lower(stack[k2].companies_to_search[j])
                     = company_lower(stack[k].companies_to_search[i])

\* C19: child levels are opened by the thread that collects a level, never
\* by a pool worker, so the active search_level calls are one parent-child
\* chain with one call per depth, and the workers running in the whole
\* traversal never exceed max_workers * max_depth.
C19_OneCallPerDepth ==
    /\ [](/\ Len(stack) <= max_depth
          /\ \A k \in 1..Len(stack) :
                /\ stack[k].current_depth = k
                /\ IF k < Len(stack)
                   THEN /\ stack[k].cur \in stack[k].taken
                        /\ stack[k].st[stack[k].cur] = "done"
                        /\ stack[k + 1].companies_to_search
                               = stack[k].res[stack[k].cur]
                   ELSE stack[k].cur = 0
          /\ Cardinality(AllRunning) <= max_workers * max_depth)
    /\ [][ Len(stack') > Len(stack) =>
              /\ Len(stack') = Len(stack) + 1
              /\ ~ WorkerStep
         ]_vars

\* C19 witness: three nested calls, the pools of two of them with workers
\* running at the same time.
C19_Witness ==
    /\ Len(stack) = 3
    /\ \E k \in 1..Len(stack) : \E k2 \in 1..Len(stack) :
          /\ k # k2
          /\ Running(k) # {}
          /\ Running(k2) # {}

\* The call search_single_company(company_name, 1).
RootTask == [path |-> <<company_name>>, company |-> company_name, depth |-> 1]

\* C20: when the root's worker completed without raising, the returned
\* "subsidiaries" has one top-level key, the root company name, with every
\* other company beneath it; total_companies_found is the number of key
\* entries at all levels, the root's included and a name counted once per
\* place, and it is 0 only when the field is empty.
C20_RootKeyAndCount ==
    pc = "returned" =>
        /\ RootTask \in lookedUp \ raisedAt =>
              /\ DOMAIN hierarchy.subsidiaries = {company_name}
              /\ \A p \in ReturnedPaths : p[1] = company_name
        /\ hierarchy.total_companies_found = Cardinality(ReturnedPaths)
        /\ hierarchy.total_companies_found = 0 <=>
               hierarchy.subsidiaries = EmptyMap

\* C20 witness: a returned tree under the root's key in which a name stands
\* in two places.
C20_Witness ==
    /\ pc = "returned"
    /\ RootTask \in lookedUp \ raisedAt
    /\ \E p \in ReturnedPaths : \E q \in ReturnedPaths :
          p # q /\ Last(p) = Last(q)

====
